---- MODULE Spec2Model ----
(***************************************************************************)
(* Invoice versioning and report-month lifecycle of moloflow               *)
(* (backend/invoices/models.py).                                           *)
(*                                                                         *)
(* The relational store is modelled as sets of rows.  Request workers run  *)
(* the model methods; a method that reads and then writes inside           *)
(* transaction.atomic() is split at its statements, so that concurrent     *)
(* workers interleave between the statements.  select_for_update() takes   *)
(* row locks on the InvoiceVersion rows its query matches and the locks    *)
(* are held until the transaction ends; a query that matches no row locks  *)
(* nothing.                                                                *)
(*                                                                         *)
(* ReportMonth and Invoice remember field values in __init__ and compare   *)
(* them in save(), so the instances callers hold are part of the state:    *)
(* one instance per row is in use at a time, and a caller fetches a new    *)
(* one after an exception.  WriteOffFact rows are canceled and cloned.     *)
(***************************************************************************)
EXTENDS Integers, FiniteSets, Sequences, TLC

\* ---------------------------------------------------------------- bounds
MaxId == 2          \* primary keys handed out to InvoiceVersion rows
MaxFacts == 2       \* rows of the WriteOffFact table

\* ---------------------------------------------------------------- domains
Workers == {"w1", "w2"}
Invoices == {"i1", "i2"}
Months == {"m1", "m2"}
NULL == 0                 \* a null foreign key or timestamp
NoInvoice == "none"
NoFile == "nofile"
NoError == "none"
Files == {NoFile, "xlsx"}
Times == {1, 2}
Years == {2025, 2026}
MonthNumbers == {6, 7}
MIN_YEAR == 2000
MIN_MONTH == 1
MAX_MONTH == 12

VARIABLES
    report_months,   \* ReportMonth table: month -> [year, month, is_closed, closed_at]
    invoices,        \* Invoice table: invoice -> [report_month, date, active_version]
    versions,        \* InvoiceVersion table: set of [id, invoice, version, file]
    items,           \* InvoiceItem table: the versions its rows reference
    next_id,         \* next primary key of the InvoiceVersion table
    pc,              \* worker -> position inside the method it runs
    call,            \* worker -> locals of the method it runs
    locks,           \* worker -> ids of the version rows its transaction locked
    raised,          \* the exception the method that finished last raised
    removed,         \* history: invoice -> version numbers of deleted rows
    month_obj,       \* month -> the ReportMonth instance a caller holds of it
    invoice_obj,     \* invoice -> the Invoice instance a caller holds of it
    facts,           \* WriteOffFact table: set of rows
    fact_call        \* the WriteOffFact call made last and its arguments

vars == <<report_months, invoices, versions, items, next_id, pc, call, locks,
          raised, removed, month_obj, invoice_obj, facts, fact_call>>

\* ---------------------------------------------------------------- helpers
SetMax(S) == CHOOSE x \in S : \A y \in S : y <= x

VersionsOf(i) == {r \in versions : r.invoice = i}

NumbersOf(i) == {r.version : r \in VersionsOf(i)}

IdsOf(i) == {r.id : r \in VersionsOf(i)}

VersionIds == {r.id : r \in versions}

\* LastVersion with the empty aggregate defaulting to 1 instead of 0
LastVersion_or_one(i) == IF NumbersOf(i) = {} THEN 1 ELSE SetMax(NumbersOf(i))

\* aggregate(Max("version"))["version__max"] or 0
LastVersion(i) == IF NumbersOf(i) = {} THEN 0 ELSE SetMax(NumbersOf(i))

\* rows of invoice i that another worker's open transaction holds locked
LockedByOther(t, ids) == \E u \in Workers \ {t} : locks[u] \cap ids # {}

\* the InvoiceVersion table without its unique constraint
no_unique_constraint(i, n) == FALSE

\* UniqueConstraint(fields=["invoice", "version"])
uniq_invoice_version_per_invoice(i, n) == \E r \in VersionsOf(i) : r.version = n

\* on_delete=PROTECT references to an InvoiceVersion row
ProtectedRefs(v) ==
    \/ v \in items
    \/ \E i \in Invoices : invoices[i].active_version = v

IdleCall == [invoice |-> NoInvoice, file |-> NoFile, version |-> 0,
             target |-> NULL, month_closed |-> FALSE]

\* the exceptions the methods raise
NotSequential == "ValidationError: Version must be sequential"
ActiveVersion == "ValidationError: Cannot delete the active version"
IntegrityError == "IntegrityError"
ProtectedError == "ProtectedError"
LockedFields == "ValidationError: Cannot modify year/month of a closed report month"
DuplicateMonth == "ValidationError: Report month for this year and month already exists"
InvalidField == "ValidationError: field validator"
ClosedMonth == "ValidationError: Cannot modify invoice in a closed report month"
DateOutside == "ValidationError: Invoice date must be within the report month"
VersionsExist == "ValidationError: Cannot modify report month if versions exist"

\* ReportMonth.__init__ of an instance built from a row: the loaded fields
\* and the remembered year and month.
ReportMonth_init(row) ==
    [year |-> row.year, month |-> row.month, is_closed |-> row.is_closed,
     closed_at |-> row.closed_at, old_year |-> row.year, old_month |-> row.month,
     state |-> "loaded"]

\* the related ReportMonth instance an Invoice instance caches when its
\* report_month attribute is read or assigned
Related(pk, row) ==
    [pk |-> pk, year |-> row.year, month |-> row.month, is_closed |-> row.is_closed]

\* Invoice.__init__ of an instance built from a row: reading
\* self.report_month fetches and caches the related month.
Invoice_init(row, month_row) ==
    [report_month |-> Related(row.report_month, month_row), date |-> row.date,
     old_report_month |-> row.report_month, state |-> "loaded"]

\* no WriteOffFact call was made yet
NoCall ==
    [op |-> "none", id |-> NULL, early |-> FALSE, quantity |-> NULL, fact_date |-> NULL,
     equipment_snapshot |-> NULL]

\* the rows the store starts with: two open months, the invoices in the first
FirstMonths ==
    [m \in Months |-> [year |-> 2025, month |-> IF m = "m1" THEN 6 ELSE 7,
                       is_closed |-> FALSE, closed_at |-> NULL]]

FirstInvoices ==
    [i \in Invoices |-> [report_month |-> "m1", date |-> [year |-> 2025, month |-> 6],
                         active_version |-> NULL]]

\* ---------------------------------------------------------------- Init
Init ==
    /\ report_months = FirstMonths
    /\ invoices = FirstInvoices
    /\ versions = {}
    /\ items = {}
    /\ next_id = 1
    /\ pc = [t \in Workers |-> "idle"]
    /\ call = [t \in Workers |-> IdleCall]
    /\ locks = [t \in Workers |-> {}]
    /\ raised = NoError
    /\ removed = [i \in Invoices |-> {}]
    /\ month_obj = [m \in Months |-> ReportMonth_init(FirstMonths[m])]
    /\ invoice_obj = [i \in Invoices |->
                        Invoice_init(FirstInvoices[i], FirstMonths[FirstInvoices[i].report_month])]
    /\ facts = {}
    /\ fact_call = NoCall

\* a worker's method ends: its transaction is over, its locks are released
Finish(t, how) ==
    /\ pc' = [pc EXCEPT ![t] = "idle"]
    /\ call' = [call EXCEPT ![t] = IdleCall]
    /\ locks' = [locks EXCEPT ![t] = {}]
    /\ raised' = how

\* ---------------------------------------------------------------- ReportMonth
\* ReportMonth.close() on a freshly loaded row: no-op when closed, otherwise
\* is_closed and closed_at are set and saved.
ReportMonth_close(m) ==
    /\ ~report_months[m].is_closed
    /\ \E now \in Times :
        report_months' = [report_months EXCEPT ![m].is_closed = TRUE,
                                                ![m].closed_at = now]
    /\ UNCHANGED <<invoices, versions, items, next_id, pc, call, locks, raised,
                   removed,
                   month_obj, invoice_obj, facts, fact_call>>

\* ReportMonth.reopen() on a freshly loaded row.
ReportMonth_reopen(m) ==
    /\ report_months[m].is_closed
    /\ report_months' = [report_months EXCEPT ![m].is_closed = FALSE,
                                                ![m].closed_at = NULL]
    /\ UNCHANGED <<invoices, versions, items, next_id, pc, call, locks, raised,
                   removed,
                   month_obj, invoice_obj, facts, fact_call>>

\* ---------------------------------------------------------------- Invoice
\* Invoice.clean(): the checks that can fail for a persisted invoice whose
\* date and report month are not edited.
Invoice_clean(i) == ~report_months[invoices[i].report_month].is_closed

\* Invoice.save() of a loaded invoice whose active_version was set to av.
\* full_clean() checks that the referenced version row exists, clean() that
\* the report month is open; report_month is not changed, so the guard of
\* lines 233-238 does not fire.  A failed save persists nothing.
Invoice_save(i, av) ==
    /\ av \in VersionIds \cup {NULL}
    /\ av # invoices[i].active_version
    /\ Invoice_clean(i)
    /\ invoices' = [invoices EXCEPT ![i].active_version = av]
    /\ UNCHANGED <<report_months, versions, items, next_id, pc, call, locks, raised,
                   removed,
                   month_obj, invoice_obj, facts, fact_call>>

\* Invoice.add_version(file) -> InvoiceVersion.create_next(invoice, file):
\* the transaction begins and the locking aggregate reads the current
\* maximum; version = last + 1 is kept for objects.create().
add_version(t, i, f) ==
    /\ pc[t] = "idle"
    /\ ~LockedByOther(t, IdsOf(i))
    /\ pc' = [pc EXCEPT ![t] = "save"]
    /\ call' = [call EXCEPT ![t] =
            [invoice |-> i, file |-> f,
             version |-> LastVersion(i) + 1, target |-> NULL,
             month_closed |-> report_months[invoices[i].report_month].is_closed]]
    /\ locks' = [locks EXCEPT ![t] = IdsOf(i)]
    /\ UNCHANGED <<report_months, invoices, versions, items, next_id, raised,
                   removed,
                   month_obj, invoice_obj, facts, fact_call>>


\* ---------------------------------------------------------------- InvoiceVersion
\* InvoiceVersion.save(), new row: the second locking aggregate and the
\* sequential check pass.
InvoiceVersion_save_check(t) ==
    /\ pc[t] = "save"
    /\ ~LockedByOther(t, IdsOf(call[t].invoice))
    /\ call[t].version = LastVersion(call[t].invoice) + 1
    /\ pc' = [pc EXCEPT ![t] = "insert"]
    /\ locks' = [locks EXCEPT ![t] = locks[t] \cup IdsOf(call[t].invoice)]
    /\ UNCHANGED <<report_months, invoices, versions, items, next_id, call, raised,
                   removed,
                   month_obj, invoice_obj, facts, fact_call>>

\* the sequential check made after the INSERT and outside the transaction:
\* the row stays when the check raises
save_checked_after_insert(t) ==
    /\ pc[t] = "save"
    /\ next_id <= MaxId
    /\ ~LockedByOther(t, IdsOf(call[t].invoice))
    /\ call[t].version # LastVersion(call[t].invoice) + 1
    /\ versions' = versions \cup
            {[id |-> next_id, invoice |-> call[t].invoice,
              version |-> call[t].version, file |-> call[t].file]}
    /\ next_id' = next_id + 1
    /\ Finish(t, NotSequential)
    /\ UNCHANGED <<report_months, invoices, items, removed,
                   month_obj, invoice_obj, facts, fact_call>>

\* InvoiceVersion.save(), new row: the sequential check raises
\* ValidationError and the transaction rolls back.
InvoiceVersion_save_not_sequential(t) ==
    /\ pc[t] = "save"
    /\ ~LockedByOther(t, IdsOf(call[t].invoice))
    /\ call[t].version # LastVersion(call[t].invoice) + 1
    /\ Finish(t, NotSequential)
    /\ UNCHANGED <<report_months, invoices, versions, items, next_id, removed,
                   month_obj, invoice_obj, facts, fact_call>>

\* super().save(): the INSERT succeeds and both atomic blocks commit.
InvoiceVersion_save_insert(t) ==
    /\ pc[t] = "insert"
    /\ next_id <= MaxId
    /\ ~uniq_invoice_version_per_invoice(call[t].invoice, call[t].version)
    /\ versions' = versions \cup
            {[id |-> next_id, invoice |-> call[t].invoice,
              version |-> call[t].version, file |-> call[t].file]}
    /\ next_id' = next_id + 1
    /\ Finish(t, NoError)
    /\ UNCHANGED <<report_months, invoices, items, removed,
                   month_obj, invoice_obj, facts, fact_call>>

\* super().save(): the INSERT violates the unique constraint; IntegrityError
\* rolls the transaction back.
InvoiceVersion_save_integrity_error(t) ==
    /\ pc[t] = "insert"
    /\ uniq_invoice_version_per_invoice(call[t].invoice, call[t].version)
    /\ Finish(t, IntegrityError)
    /\ UNCHANGED <<report_months, invoices, versions, items, next_id, removed,
                   month_obj, invoice_obj, facts, fact_call>>

\* A worker loads the InvoiceVersion row v, to call delete() on it.
InvoiceVersion_get(t, v) ==
    /\ pc[t] = "idle"
    /\ \E r \in versions :
        /\ r.id = v
        /\ call' = [call EXCEPT ![t] = [IdleCall EXCEPT !.target = v, !.invoice = r.invoice]]
    /\ pc' = [pc EXCEPT ![t] = "delete"]
    /\ UNCHANGED <<report_months, invoices, versions, items, next_id, locks, raised,
                   removed,
                   month_obj, invoice_obj, facts, fact_call>>

\* self.invoice.active_version_id == self.id
is_active(i, v) == invoices[i].active_version = v

\* delete() without the check of lines 144-145: the active version goes on
\* to super().delete()
delete_without_check(t) ==
    /\ pc[t] = "delete"
    /\ is_active(call[t].invoice, call[t].target)
    /\ pc' = [pc EXCEPT ![t] = "delete_super"]
    /\ UNCHANGED <<report_months, invoices, versions, items, next_id, call, locks,
                   raised, removed,
                   month_obj, invoice_obj, facts, fact_call>>

\* InvoiceVersion.delete(), lines 144-145: the version is its invoice's
\* active version, ValidationError.
InvoiceVersion_delete_active(t) ==
    /\ pc[t] = "delete"
    /\ is_active(call[t].invoice, call[t].target)
    /\ Finish(t, ActiveVersion)
    /\ UNCHANGED <<report_months, invoices, versions, items, next_id, removed,
                   month_obj, invoice_obj, facts, fact_call>>

\* InvoiceVersion.delete(), line 144: the check passes.
InvoiceVersion_delete_check(t) ==
    /\ pc[t] = "delete"
    /\ ~is_active(call[t].invoice, call[t].target)
    /\ pc' = [pc EXCEPT ![t] = "delete_super"]
    /\ UNCHANGED <<report_months, invoices, versions, items, next_id, call, locks,
                   raised, removed,
                   month_obj, invoice_obj, facts, fact_call>>

\* super().delete(): a PROTECT reference to the row exists, ProtectedError.
InvoiceVersion_delete_protected(t) ==
    /\ pc[t] = "delete_super"
    /\ call[t].target \in VersionIds
    /\ ProtectedRefs(call[t].target)
    /\ Finish(t, ProtectedError)
    /\ UNCHANGED <<report_months, invoices, versions, items, next_id, removed,
                   month_obj, invoice_obj, facts, fact_call>>

\* super().delete(): the row is deleted (nothing is deleted when another
\* worker deleted it in the meantime).
InvoiceVersion_delete_super(t) ==
    /\ pc[t] = "delete_super"
    /\ ~LockedByOther(t, {call[t].target})
    /\ ~(call[t].target \in VersionIds /\ ProtectedRefs(call[t].target))
    /\ versions' = {r \in versions : r.id # call[t].target}
    /\ removed' = [removed EXCEPT ![call[t].invoice] =
            @ \cup {r.version : r \in {x \in versions : x.id = call[t].target}}]
    /\ Finish(t, NoError)
    /\ UNCHANGED <<report_months, invoices, items, next_id,
                   month_obj, invoice_obj, facts, fact_call>>

\* ---------------------------------------------------------------- InvoiceItem
\* InvoiceItem.objects.create(version=v): the parser attaches a row to v.
InvoiceItem_create(v) ==
    /\ v \in VersionIds \ items
    /\ items' = items \cup {v}
    /\ UNCHANGED <<report_months, invoices, versions, next_id, pc, call, locks, raised,
                   removed,
                   month_obj, invoice_obj, facts, fact_call>>

\* ---------------------------------------------------------------- ReportMonth instances
\* A caller holds an instance of a row, assigns attributes and calls its
\* methods.  The instance keeps what __init__ remembered when it was built.
\* The state of an instance is what was done with it last: "loaded", "dirty"
\* (attributes assigned), "saved", "closed", "reopened" (the method wrote
\* and returned), "returned" (close() or reopen() returned at once) or
\* "raised".  A caller that got an exception drops the instance and gets a
\* new one.
Dates == [year : Years, month : MonthNumbers]

Ready == {"loaded", "saved", "closed", "reopened", "returned"}

\* MinValueValidator(MIN_YEAR), MinValueValidator(MIN_MONTH),
\* MaxValueValidator(MAX_MONTH)
ReportMonth_validators(o) ==
    /\ o.year >= MIN_YEAR
    /\ o.month >= MIN_MONTH
    /\ o.month <= MAX_MONTH

\* a clean() that does not look for duplicates
never_duplicate(m, o) == TRUE

\* ReportMonth.clean(): no other row has the instance's year and month
ReportMonth_clean(m, o) ==
    ~\E n \in (DOMAIN report_months) \ {m} :
        report_months[n].year = o.year /\ report_months[n].month = o.month

\* a save() that does not look at the remembered year and month
never_locked(o) == FALSE

\* the guard of ReportMonth.save() for an instance that is not being added
ReportMonth_locked(o) ==
    o.is_closed /\ (o.year # o.old_year \/ o.month # o.old_month)

\* what ReportMonth.save() raises: its own guard, then full_clean()
ReportMonth_save_error(m, o) ==
    IF ReportMonth_locked(o) THEN LockedFields
    ELSE IF ~ReportMonth_validators(o) THEN InvalidField
    ELSE IF ~ReportMonth_clean(m, o) THEN DuplicateMonth
    ELSE NoError

\* ReportMonth.objects.get(): a new instance of the row
ReportMonth_obj_get(m) ==
    /\ month_obj' = [month_obj EXCEPT ![m] = ReportMonth_init(report_months[m])]
    /\ UNCHANGED <<report_months, invoices, versions, items, next_id, pc, call, locks,
                   raised, removed, invoice_obj, facts, fact_call>>

\* the caller assigns year and month of the instance
ReportMonth_obj_set(m, y, mo) ==
    /\ month_obj[m].state \in Ready
    /\ <<y, mo>> # <<month_obj[m].year, month_obj[m].month>>
    /\ month_obj' = [month_obj EXCEPT ![m].year = y, ![m].month = mo,
                                      ![m].state = "dirty"]
    /\ UNCHANGED <<report_months, invoices, versions, items, next_id, pc, call, locks,
                   raised, removed, invoice_obj, facts, fact_call>>

\* ReportMonth.save() of the edited instance: every field is written
ReportMonth_obj_save(m) ==
    /\ month_obj[m].state = "dirty"
    /\ LET o == month_obj[m]
           err == ReportMonth_save_error(m, o)
       IN  /\ raised' = err
           /\ IF err = NoError
              THEN /\ report_months' = [report_months EXCEPT ![m] =
                          [year |-> o.year, month |-> o.month,
                           is_closed |-> o.is_closed, closed_at |-> o.closed_at]]
                   /\ month_obj' = [month_obj EXCEPT ![m].state = "saved"]
              ELSE /\ UNCHANGED report_months
                   /\ month_obj' = [month_obj EXCEPT ![m].state = "raised"]
    /\ UNCHANGED <<invoices, versions, items, next_id, pc, call, locks, removed,
                   invoice_obj, facts, fact_call>>

\* ReportMonth.close() of the instance: returns when the instance is closed,
\* otherwise sets is_closed and closed_at and saves these two fields.
ReportMonth_obj_close(m) ==
    /\ month_obj[m].state \in Ready
    /\ \E now \in Times :
        LET o == month_obj[m]
            c == [o EXCEPT !.is_closed = TRUE, !.closed_at = now, !.state = "closed"]
            err == ReportMonth_save_error(m, c)
        IN  IF o.is_closed
            THEN /\ raised' = NoError
                 /\ month_obj' = [month_obj EXCEPT ![m].state = "returned"]
                 /\ UNCHANGED report_months
            ELSE /\ raised' = err
                 /\ IF err = NoError
                    THEN /\ report_months' = [report_months EXCEPT
                                                 ![m].is_closed = c.is_closed,
                                                 ![m].closed_at = c.closed_at]
                         /\ month_obj' = [month_obj EXCEPT ![m] = c]
                    ELSE /\ UNCHANGED report_months
                         /\ month_obj' = [month_obj EXCEPT
                                             ![m] = [c EXCEPT !.state = "raised"]]
    /\ UNCHANGED <<invoices, versions, items, next_id, pc, call, locks, removed,
                   invoice_obj, facts, fact_call>>

\* a reopen() that leaves closed_at as it is
reopen_keeps_closed_at(m) ==
    /\ month_obj[m].state \in Ready
    /\ month_obj[m].is_closed
    /\ raised' = NoError
    /\ report_months' = [report_months EXCEPT ![m].is_closed = FALSE]
    /\ month_obj' = [month_obj EXCEPT ![m].is_closed = FALSE, ![m].state = "reopened"]
    /\ UNCHANGED <<invoices, versions, items, next_id, pc, call, locks, removed,
                   invoice_obj, facts, fact_call>>

\* ReportMonth.reopen() of the instance: returns when the instance is open,
\* otherwise clears is_closed and closed_at and saves these two fields.
ReportMonth_obj_reopen(m) ==
    /\ month_obj[m].state \in Ready
    /\ LET o == month_obj[m]
           c == [o EXCEPT !.is_closed = FALSE, !.closed_at = NULL, !.state = "reopened"]
           err == ReportMonth_save_error(m, c)
       IN  IF ~o.is_closed
           THEN /\ raised' = NoError
                /\ month_obj' = [month_obj EXCEPT ![m].state = "returned"]
                /\ UNCHANGED report_months
           ELSE /\ raised' = err
                /\ IF err = NoError
                   THEN /\ report_months' = [report_months EXCEPT
                                                ![m].is_closed = c.is_closed,
                                                ![m].closed_at = c.closed_at]
                        /\ month_obj' = [month_obj EXCEPT ![m] = c]
                   ELSE /\ UNCHANGED report_months
                        /\ month_obj' = [month_obj EXCEPT
                                            ![m] = [c EXCEPT !.state = "raised"]]
    /\ UNCHANGED <<invoices, versions, items, next_id, pc, call, locks, removed,
                   invoice_obj, facts, fact_call>>

\* ---------------------------------------------------------------- ReportMonth creation
\* the primary keys of the report months that are created later
Created == {"m3"}

\* the values callers pass to create(): the assigned ones, a year below
\* MIN_YEAR and months outside MIN_MONTH..MAX_MONTH
CreateYears == Years \cup {MIN_YEAR - 1}

CreateMonths == MonthNumbers \cup {MIN_MONTH - 1, MAX_MONTH + 1}

\* the function f with key k set to v
Put(f, k, v) == [n \in (DOMAIN f) \cup {k} |-> IF n = k THEN v ELSE f[n]]

\* UniqueConstraint(fields=["year", "month"]) of the table
uniq_report_month_year_month(m, o) ==
    \E n \in (DOMAIN report_months) \ {m} :
        report_months[n].year = o.year /\ report_months[n].month = o.month

\* ReportMonth.objects.create(year, month): the instance is built and
\* save() runs full_clean(); the guard of save() does not apply to an
\* instance that is being added.  The INSERT follows as a step of its own.
ReportMonth_create(m, y, mo) ==
    /\ m \notin DOMAIN report_months
    /\ m \in DOMAIN month_obj => month_obj[m].state # "adding"
    /\ LET o == ReportMonth_init([year |-> y, month |-> mo, is_closed |-> FALSE,
                                  closed_at |-> NULL])
           err == ReportMonth_save_error(m, o)
       IN  /\ raised' = err
           /\ month_obj' = Put(month_obj, m,
                  [o EXCEPT !.state = IF err = NoError THEN "adding" ELSE "raised"])
    /\ UNCHANGED <<report_months, invoices, versions, items, next_id, pc, call, locks,
                   removed, invoice_obj, facts, fact_call>>

\* the INSERT of create(): the unique constraint of the table rejects a row
\* whose year and month were stored since full_clean() ran
ReportMonth_create_insert(m) ==
    /\ m \notin DOMAIN report_months
    /\ m \in DOMAIN month_obj
    /\ month_obj[m].state = "adding"
    /\ LET o == month_obj[m]
       IN  IF uniq_report_month_year_month(m, o)
           THEN /\ raised' = IntegrityError
                /\ month_obj' = [month_obj EXCEPT ![m].state = "raised"]
                /\ UNCHANGED report_months
           ELSE /\ raised' = NoError
                /\ month_obj' = [month_obj EXCEPT ![m].state = "saved"]
                /\ report_months' = Put(report_months, m,
                       [year |-> o.year, month |-> o.month,
                        is_closed |-> o.is_closed, closed_at |-> o.closed_at])
    /\ UNCHANGED <<invoices, versions, items, next_id, pc, call, locks, removed,
                   invoice_obj, facts, fact_call>>

\* ---------------------------------------------------------------- Invoice instances
\* what Invoice.save() raises: its own guard, then clean() on the cached
\* related month
Invoice_save_error(i, o) ==
    IF o.report_month.pk # o.old_report_month /\ VersionsOf(i) # {} THEN VersionsExist
    ELSE IF o.report_month.is_closed THEN ClosedMonth
    ELSE IF o.date # [year |-> o.report_month.year, month |-> o.report_month.month]
         THEN DateOutside
    ELSE NoError

\* Invoice.objects.get(): a new instance of the row
Invoice_obj_get(i) ==
    /\ invoice_obj' = [invoice_obj EXCEPT ![i] =
            Invoice_init(invoices[i], report_months[invoices[i].report_month])]
    /\ UNCHANGED <<report_months, invoices, versions, items, next_id, pc, call, locks,
                   raised, removed, month_obj, facts, fact_call>>

\* the caller assigns report_month and date of the instance; a report month
\* that is assigned is an instance the caller has just fetched
Invoice_obj_set(i, m, d) ==
    /\ invoice_obj[i].state \in Ready
    /\ <<m, d>> # <<invoice_obj[i].report_month.pk, invoice_obj[i].date>>
    /\ invoice_obj' = [invoice_obj EXCEPT
            ![i].report_month = IF m = @.pk THEN @ ELSE Related(m, report_months[m]),
            ![i].date = d,
            ![i].state = "dirty"]
    /\ UNCHANGED <<report_months, invoices, versions, items, next_id, pc, call, locks,
                   raised, removed, month_obj, facts, fact_call>>

\* Invoice.save() of the edited instance
Invoice_obj_save(i) ==
    /\ invoice_obj[i].state = "dirty"
    /\ LET o == invoice_obj[i]
           err == Invoice_save_error(i, o)
       IN  /\ raised' = err
           /\ IF err = NoError
              THEN /\ invoices' = [invoices EXCEPT ![i].report_month = o.report_month.pk,
                                                   ![i].date = o.date]
                   /\ invoice_obj' = [invoice_obj EXCEPT ![i].state = "saved"]
              ELSE /\ UNCHANGED invoices
                   /\ invoice_obj' = [invoice_obj EXCEPT ![i].state = "raised"]
    /\ UNCHANGED <<report_months, versions, items, next_id, pc, call, locks, removed,
                   month_obj, facts, fact_call>>

\* ---------------------------------------------------------------- WriteOffFact
SpareParts == {"sp1", "sp2"}
Quantities == {1, 2}
FactDates == {1, 2}
Snapshots ==
    {[name |-> "pump", inventory_number |-> "inv-1", sequence_number |-> 1,
      company_name |-> "co-1"],
     [name |-> "lathe", inventory_number |-> "inv-2", sequence_number |-> 2,
      company_name |-> "co-2"]}
Sources == {"invoice", "manual"}

FactIds == {r.id : r \in facts}

Fact(f) == CHOOSE r \in facts : r.id = f

\* WriteOffFact.objects.create(...): the row that is inserted
NewFact(p, q, d, snap, item, m, src, st) ==
    [id |-> Cardinality(facts) + 1, spare_part |-> p, quantity |-> q, fact_date |-> d,
     equipment_name |-> snap.name,
     equipment_inventory_number |-> snap.inventory_number,
     equipment_sequence_number |-> snap.sequence_number,
     equipment_company_name |-> snap.company_name,
     invoice_item |-> item, report_month |-> m, source |-> src, status |-> st]

\* a fact is recorded, from an invoice item or by hand; status defaults to
\* "active"
WriteOffFact_create(p, q, d, snap, m, src) ==
    /\ Cardinality(facts) < MaxFacts
    /\ facts' = facts \cup
           {NewFact(p, q, d, snap, IF src = "invoice" THEN 1 ELSE NULL, m, src, "active")}
    /\ fact_call' = [NoCall EXCEPT !.op = "create"]
    /\ UNCHANGED <<report_months, invoices, versions, items, next_id, pc, call, locks,
                   raised, removed, month_obj, invoice_obj>>

\* a cancel() that flips the status back and forth
cancel_toggles(f) ==
    /\ f \in FactIds
    /\ facts' = (facts \ {Fact(f)}) \cup
           {[Fact(f) EXCEPT !.status = IF @ = "canceled" THEN "active" ELSE "canceled"]}
    /\ fact_call' = [NoCall EXCEPT !.op = "cancel", !.id = f]
    /\ UNCHANGED <<report_months, invoices, versions, items, next_id, pc, call, locks,
                   raised, removed, month_obj, invoice_obj>>

\* WriteOffFact.cancel(): returns when the fact is canceled, otherwise sets
\* the status and saves this one field
WriteOffFact_cancel(f) ==
    /\ f \in FactIds
    /\ IF Fact(f).status = "canceled"
       THEN /\ UNCHANGED facts
            /\ fact_call' = [NoCall EXCEPT !.op = "cancel", !.id = f, !.early = TRUE]
       ELSE /\ facts' = (facts \ {Fact(f)}) \cup {[Fact(f) EXCEPT !.status = "canceled"]}
            /\ fact_call' = [NoCall EXCEPT !.op = "cancel", !.id = f]
    /\ UNCHANGED <<report_months, invoices, versions, items, next_id, pc, call, locks,
                   raised, removed, month_obj, invoice_obj>>

\* a clone_as_manual() that copies the status of the original
clone_copies_status(f, q, d, snap) ==
    /\ f \in FactIds
    /\ Cardinality(facts) < MaxFacts
    /\ facts' = facts \cup
           {NewFact(Fact(f).spare_part, q, d, snap, NULL, Fact(f).report_month,
                    "manual", Fact(f).status)}
    /\ fact_call' = [op |-> "clone_as_manual", id |-> f, early |-> FALSE,
                     quantity |-> q, fact_date |-> d, equipment_snapshot |-> snap]
    /\ UNCHANGED <<report_months, invoices, versions, items, next_id, pc, call, locks,
                   raised, removed, month_obj, invoice_obj>>

\* WriteOffFact.clone_as_manual(quantity, fact_date, equipment_snapshot)
WriteOffFact_clone_as_manual(f, q, d, snap) ==
    /\ f \in FactIds
    /\ Cardinality(facts) < MaxFacts
    /\ facts' = facts \cup
           {NewFact(Fact(f).spare_part, q, d, snap, NULL, Fact(f).report_month,
                    "manual", "active")}
    /\ fact_call' = [op |-> "clone_as_manual", id |-> f, early |-> FALSE,
                     quantity |-> q, fact_date |-> d, equipment_snapshot |-> snap]
    /\ UNCHANGED <<report_months, invoices, versions, items, next_id, pc, call, locks,
                   raised, removed, month_obj, invoice_obj>>

\* ---------------------------------------------------------------- Next
\* The operations on invoices and their versions.  The report months stay
\* open, which keeps every Invoice.save() enabled.
Next ==
    \/ \E i \in Invoices, av \in (1..MaxId) \cup {NULL} : Invoice_save(i, av)
    \/ \E t \in Workers, i \in Invoices, f \in Files \ {NoFile} : add_version(t, i, f)
    \/ \E t \in Workers : InvoiceVersion_save_check(t)
    \/ \E t \in Workers : InvoiceVersion_save_not_sequential(t)
    \/ \E t \in Workers : InvoiceVersion_save_insert(t)
    \/ \E t \in Workers : InvoiceVersion_save_integrity_error(t)
    \/ \E t \in Workers, v \in 1..MaxId : InvoiceVersion_get(t, v)
    \/ \E t \in Workers : InvoiceVersion_delete_active(t)
    \/ \E t \in Workers : InvoiceVersion_delete_check(t)
    \/ \E t \in Workers : InvoiceVersion_delete_protected(t)
    \/ \E t \in Workers : InvoiceVersion_delete_super(t)
    \/ \E v \in 1..MaxId : InvoiceItem_create(v)

Spec == Init /\ [][Next]_vars

\* The same operations while report months are closed and reopened.
InvoiceMonths == {invoices[i].report_month : i \in Invoices}

NextClosing ==
    \/ Next
    \/ \E m \in InvoiceMonths : ReportMonth_close(m)
    \/ \E m \in InvoiceMonths : ReportMonth_reopen(m)

SpecClosing == Init /\ [][NextClosing]_vars

\* The same operations with uploads that carry no file.
NextUpload ==
    \/ Next
    \/ \E t \in Workers, i \in Invoices : add_version(t, i, NoFile)

SpecUpload == Init /\ [][NextUpload]_vars

\* The write-off facts: facts are recorded, canceled and cloned.
NextFacts ==
    \/ \E p \in SpareParts, snap \in Snapshots, m \in Months, src \in Sources :
          WriteOffFact_create(p, 1, 1, snap, m, src)
    \/ \E f \in 1..MaxFacts : WriteOffFact_cancel(f)
    \/ \E f \in 1..MaxFacts, q \in Quantities, d \in FactDates, snap \in Snapshots :
          WriteOffFact_clone_as_manual(f, q, d, snap)

SpecFacts == Init /\ [][NextFacts]_vars

\* The report months and the instances callers hold of them.
NextMonths ==
    \/ \E m \in Months : ReportMonth_obj_get(m)
    \/ \E m \in Months, y \in Years, mo \in MonthNumbers : ReportMonth_obj_set(m, y, mo)
    \/ \E m \in Months : ReportMonth_obj_save(m)
    \/ \E m \in Months : ReportMonth_obj_close(m)
    \/ \E m \in Months : ReportMonth_obj_reopen(m)

SpecMonths == Init /\ [][NextMonths]_vars

\* Report months are created while the months stored first are edited.
NextCreate ==
    \/ \E m \in Created, y \in CreateYears, mo \in CreateMonths : ReportMonth_create(m, y, mo)
    \/ \E m \in Created : ReportMonth_create_insert(m)
    \/ \E m \in Months : ReportMonth_obj_get(m)
    \/ \E m \in Months, y \in Years, mo \in MonthNumbers : ReportMonth_obj_set(m, y, mo)
    \/ \E m \in Months : ReportMonth_obj_save(m)

SpecCreate == Init /\ [][NextCreate]_vars

\* The invoices of the report months: callers close and reopen the months
\* and edit an invoice, and one worker uploads versions.
Edited == {"i1"}

NextLedger ==
    \/ \E m \in Months : ReportMonth_close(m)
    \/ \E m \in Months : ReportMonth_reopen(m)
    \/ \E i \in Edited : Invoice_obj_get(i)
    \/ \E i \in Edited, m \in Months, d \in Dates : Invoice_obj_set(i, m, d)
    \/ \E i \in Edited : Invoice_obj_save(i)
    \/ \E i \in Invoices : add_version("w1", i, "xlsx")
    \/ InvoiceVersion_save_check("w1")
    \/ InvoiceVersion_save_insert("w1")

SpecLedger == Init /\ [][NextLedger]_vars

\* ---------------------------------------------------------------- properties
RowsDistinct(i) == \A r1, r2 \in VersionsOf(i) : r1.version = r2.version => r1 = r2

\* some worker's add_version call is past its first read
InFlight(t) == pc[t] \in {"save", "insert"}

\* C1: as long as no version of an invoice was deleted, the version numbers
\* stored for it are exactly 1..N, N the number of its version rows, whatever
\* the interleaving of the concurrent add_version calls: no gap, no duplicate.
C1_VersionsAreOneToN ==
    \A i \in Invoices :
        removed[i] = {} => NumbersOf(i) = 1..Cardinality(VersionsOf(i))

\* two calls raced on an invoice and one of them lost at the unique constraint
C1_Witness ==
    \E i \in Invoices :
        /\ removed[i] = {}
        /\ NumbersOf(i) = {1}
        /\ raised = IntegrityError

\* C2: concurrent add_version calls on one invoice are serialized: no two
\* calls in flight for the same invoice computed their number from the same
\* observed maximum, and no call is turned down by the unique constraint.
C2_CallsSerialized ==
    /\ \A t1, t2 \in Workers :
        (t1 # t2 /\ InFlight(t1) /\ InFlight(t2) /\ call[t1].invoice = call[t2].invoice)
            => call[t1].version # call[t2].version
    /\ raised # IntegrityError

\* C3: the step that inserts a version also makes it the active version of
\* its invoice.
C3_AddVersionSetsActive ==
    [][\A r \in versions' \ versions : invoices'[r.invoice].active_version = r.id]_vars

\* C4: an add_version call made while the invoice's report month is closed
\* ends with an error and without a new version row.
C4_ClosedMonthRejectsAddVersion ==
    [][\A t \in Workers :
        (InFlight(t) /\ call[t].month_closed /\ pc'[t] = "idle")
            => (raised' # NoError /\ versions' = versions)]_vars

\* C5: an add_version call that fails leaves the version rows and the
\* invoices (their active_version) as they were: every step of a call other
\* than its successful INSERT, the failing step included, changes neither.
C5_FailedAddVersionChangesNothing ==
    [][\A t \in Workers :
        (/\ \/ pc[t] = "idle" /\ pc'[t] = "save"
            \/ InFlight(t) /\ pc'[t] # pc[t]
         /\ ~(pc[t] = "insert" /\ pc'[t] = "idle" /\ raised' = NoError))
            => (versions' = versions /\ invoices' = invoices)]_vars

\* an add_version call failed after another call had inserted a version
C5_Witness == raised \in {IntegrityError, NotSequential} /\ versions # {}

\* C6: delete() of the version that is its invoice's active version raises
\* the ValidationError and changes neither the version rows nor the invoices.
C6_DeleteActiveFails ==
    [][\A t \in Workers :
        (/\ pc[t] = "delete"
         /\ pc'[t] # "delete"
         /\ invoices[call[t].invoice].active_version = call[t].target)
            => (/\ pc'[t] = "idle"
                /\ raised' = ActiveVersion
                /\ versions' = versions
                /\ invoices' = invoices)]_vars

\* versions 1 and 2 exist, version 2 is active and its delete() was refused
C6_Witness ==
    /\ raised = ActiveVersion
    /\ \E r \in versions :
        /\ r.version = 2
        /\ invoices[r.invoice].active_version = r.id
        /\ NumbersOf(r.invoice) = {1, 2}

\* C7: delete() of a version that is not its invoice's active version and has
\* no items passes the check and then removes exactly that row, with the
\* invoices and the other rows unchanged.
C7_DeleteNonActiveSucceeds ==
    [][\A t \in Workers :
        /\ (/\ pc[t] = "delete"
            /\ pc'[t] # "delete"
            /\ invoices[call[t].invoice].active_version # call[t].target)
                => (pc'[t] = "delete_super" /\ versions' = versions /\ invoices' = invoices)
        /\ (/\ pc[t] = "delete_super"
            /\ pc'[t] # "delete_super"
            /\ call[t].target \in VersionIds
            /\ call[t].target \notin items
            /\ invoices[call[t].invoice].active_version # call[t].target)
                => (/\ raised' = NoError
                    /\ versions' = {r \in versions : r.id # call[t].target}
                    /\ invoices' = invoices)]_vars

\* C8 as claimed: the version numbers of every invoice are contiguous from 1.
C8_Contiguous == \A i \in Invoices : NumbersOf(i) = 1..Cardinality(NumbersOf(i))

\* C8, amended: the version numbers of every invoice are pairwise distinct,
\* and every number from 1 to the highest stored one is stored or was the
\* number of a deleted version.
C8_GapsOnlyWhereDeleted ==
    \A i \in Invoices :
        /\ RowsDistinct(i)
        /\ \A n \in 1..LastVersion(i) : n \in NumbersOf(i) \/ n \in removed[i]

\* version 1 was deleted and version 2 is stored
C8_Witness ==
    \E i \in Invoices : NumbersOf(i) = {2} /\ removed[i] = {1}

\* C9: a newly inserted version gets a number greater than every number
\* assigned to its invoice before, stored or deleted since.
C9_NumbersNeverReused ==
    [][\A r \in versions' \ versions :
        \A n \in NumbersOf(r.invoice) \cup removed[r.invoice] : r.version > n]_vars

\* C10: a non-null active_version refers to a stored version of the same
\* invoice.
C10_ActiveVersionOfSameInvoice ==
    \A i \in Invoices :
        invoices[i].active_version # NULL => invoices[i].active_version \in IdsOf(i)

\* ---------------------------------------------------------------- report months and invoices
\* the step in which Invoice.save() of the edited instance of i returns or raises
InvoiceSaveStep(i) ==
    /\ invoice_obj[i].state = "dirty"
    /\ \E st \in {"saved", "raised"} :
        invoice_obj'[i] = [invoice_obj[i] EXCEPT !.state = st]

\* the related month the instance of i caches is the stored row
MonthCurrent(i) ==
    LET pk == invoice_obj[i].report_month.pk
    IN  invoice_obj[i].report_month = Related(pk, report_months[pk])

\* C11: every Invoice.save() of an invoice whose stored report month is
\* closed raises ValidationError and leaves the Invoice table as it was, also
\* when the save moves the invoice to another report month.  Only instances
\* whose cached month is the stored row are looked at.
C11_ClosedMonthRejectsInvoiceSave ==
    [][\A i \in Invoices :
        (/\ InvoiceSaveStep(i)
         /\ MonthCurrent(i)
         /\ report_months[invoices[i].report_month].is_closed)
        => (/\ invoice_obj'[i].state = "raised"
            /\ invoices' = invoices)]_vars

\* C12: when a report month is closed while an invoice is being edited, the
\* Invoice.save() that commits after the close writes nothing into the
\* closed month.
C12_NoInvoiceWriteIntoClosedMonth ==
    [][\A i \in Invoices :
        (InvoiceSaveStep(i) /\ invoices'[i] # invoices[i])
        => ~report_months[invoices'[i].report_month].is_closed]_vars

\* C13: once an invoice has a version, no step changes its stored report
\* month, whatever was saved through the same instance before.
C13_ReportMonthFixedOnceVersioned ==
    [][\A i \in Invoices :
        VersionsOf(i) # {} => invoices'[i].report_month = invoices[i].report_month]_vars

\* C14: the date of every stored invoice lies in the year and month of its
\* report month, whatever is done to invoices and report months.
C14_InvoiceDateWithinReportMonth ==
    \A i \in Invoices :
        LET rm == report_months[invoices[i].report_month]
        IN  invoices[i].date = [year |-> rm.year, month |-> rm.month]

\* the step in which ReportMonth.save() of the edited instance of m returns
\* or raises
MonthSaveStep(m) ==
    /\ month_obj[m].state = "dirty"
    /\ \E st \in {"saved", "raised"} :
        month_obj'[m] = [month_obj[m] EXCEPT !.state = st]

\* the step in which close() or reopen() of the instance of m returns or raises
MonthCallStep(m, method) ==
    /\ month_obj[m].state \in Ready
    /\ \/ month_obj'[m].state = method
       \/ /\ month_obj'[m].state \in {"returned", "raised"}
          /\ month_obj'[m].is_closed = (method = "closed")

C16_CloseIdempotent ==
    [][\A m \in Months :
        MonthCallStep(m, "closed") =>
            /\ month_obj'[m].state \in {"closed", "returned"}
            /\ report_months'[m].is_closed
            /\ report_months'[m].closed_at # NULL
            /\ report_months[m].is_closed => report_months'[m] = report_months[m]]_vars

\* C17: in every stored row and in every instance closed_at is non-null
\* exactly when is_closed is true; reopen() on a closed report month returns
\* with is_closed false and closed_at null in the stored row, and reopen()
\* on an open report month leaves the stored row as it was.
C17_ReopenInverse ==
    /\ [](\A m \in Months :
            /\ (report_months[m].closed_at # NULL) <=> report_months[m].is_closed
            /\ (month_obj[m].closed_at # NULL) <=> month_obj[m].is_closed)
    /\ [][\A m \in Months :
            MonthCallStep(m, "reopened") =>
                /\ month_obj'[m].state \in {"reopened", "returned"}
                /\ ~report_months'[m].is_closed
                /\ report_months'[m].closed_at = NULL
                /\ ~report_months[m].is_closed => report_months'[m] = report_months[m]]_vars

\* a month was closed and then reopened through the same instance, while
\* the other month is closed
C17_Witness ==
    \E m, n \in Months :
        /\ month_obj[m].state = "reopened"
        /\ ~report_months[m].is_closed
        /\ report_months[m].closed_at = NULL
        /\ report_months[n].is_closed
        /\ report_months[n].closed_at # NULL

\* ---------------------------------------------------------------- absent file
\* C18: a create_next / add_version call that was given no file ends with an
\* exception and without a new version row.
C18_AbsentFileRejected ==
    [][\A t \in Workers :
        (InFlight(t) /\ call[t].file = NoFile /\ pc'[t] = "idle")
        => (raised' # NoError /\ versions' = versions)]_vars

\* ---------------------------------------------------------------- write-off facts
\* C19: no step deletes a fact or changes a field of it other than the
\* status, and the status only goes from active to canceled; cancel() leaves
\* the called fact canceled, changes no other fact and adds none, and a
\* cancel() of a canceled fact changes nothing.
C19_CancelOnlyFlipsStatus ==
    [][/\ \A r \in facts :
            \/ r \in facts'
            \/ r.status = "active" /\ [r EXCEPT !.status = "canceled"] \in facts'
       /\ fact_call'.op = "cancel" =>
            /\ FactIds' = FactIds
            /\ \A r \in facts : r.id # fact_call'.id => r \in facts'
            /\ \A r \in facts' : r.id = fact_call'.id => r.status = "canceled"
            /\ fact_call'.early => facts' = facts]_vars

\* a cancel() of a canceled fact returned, next to a fact that is active
C19_Witness ==
    /\ fact_call.op = "cancel"
    /\ fact_call.early
    /\ Fact(fact_call.id).status = "canceled"
    /\ \E r \in facts : r.status = "active"

\* C20: clone_as_manual() adds exactly one fact, which is manual and active,
\* has no invoice item, the spare part and report month of the original and
\* the quantity, date and equipment snapshot of the arguments; every fact
\* that existed, the original included, stays as it was.
C20_CloneAddsOneManualFact ==
    [][fact_call'.op = "clone_as_manual" =>
        \E o \in facts, n \in facts' \ facts :
            /\ o.id = fact_call'.id
            /\ facts' = facts \cup {n}
            /\ n.id \notin FactIds
            /\ n.source = "manual"
            /\ n.status = "active"
            /\ n.invoice_item = NULL
            /\ n.spare_part = o.spare_part
            /\ n.report_month = o.report_month
            /\ n.quantity = fact_call'.quantity
            /\ n.fact_date = fact_call'.fact_date
            /\ n.equipment_name = fact_call'.equipment_snapshot.name
            /\ n.equipment_inventory_number = fact_call'.equipment_snapshot.inventory_number
            /\ n.equipment_sequence_number = fact_call'.equipment_snapshot.sequence_number
            /\ n.equipment_company_name = fact_call'.equipment_snapshot.company_name]_vars

\* a canceled fact recorded from an invoice item was cloned with another
\* quantity, date and snapshot
C20_Witness ==
    /\ fact_call.op = "clone_as_manual"
    /\ \E o, n \in facts :
        /\ o.id = fact_call.id
        /\ o.status = "canceled"
        /\ o.source = "invoice"
        /\ o.invoice_item # NULL
        /\ n.id # o.id
        /\ n.status = "active"
        /\ n.source = "manual"
        /\ n.quantity # o.quantity
        /\ n.fact_date # o.fact_date
        /\ n.equipment_name # o.equipment_name

\* ---------------------------------------------------------------- creating report months
\* the step in which create() of month m builds the instance and validates it
CreateCallStep(m) ==
    /\ m \notin DOMAIN report_months
    /\ m \in DOMAIN month_obj => month_obj[m].state # "adding"
    /\ m \in DOMAIN month_obj'
    /\ month_obj'[m].state \in {"adding", "raised"}
    /\ m \in DOMAIN month_obj => month_obj'[m] # month_obj[m]

\* year and month that the validators refuse, or that a stored row has
Refused(y, mo) ==
    \/ y < MIN_YEAR
    \/ mo < MIN_MONTH
    \/ mo > MAX_MONTH
    \/ \E n \in DOMAIN report_months :
        report_months[n].year = y /\ report_months[n].month = mo

\* C21: no two stored report months have the same year and month, whatever
\* was created and edited; a create() with a year below 2000, a month
\* outside 1..12 or the year and month of a stored row raises
\* ValidationError, and no create() that raises stores a row.
C21_CreateValidatedAndUnique ==
    /\ [](\A m, n \in DOMAIN report_months :
            m # n => <<report_months[m].year, report_months[m].month>>
                         # <<report_months[n].year, report_months[n].month>>)
    /\ [][\A m \in Created :
            /\ (CreateCallStep(m) /\ Refused(month_obj'[m].year, month_obj'[m].month))
               => (/\ month_obj'[m].state = "raised"
                   /\ raised' \in {InvalidField, DuplicateMonth})
            /\ (/\ m \in DOMAIN month_obj'
                /\ month_obj'[m].state = "raised"
                /\ m \in DOMAIN month_obj => month_obj'[m] # month_obj[m])
               => report_months' = report_months]_vars

\* a create() with the year and month of a stored month that was edited
\* before raised ValidationError and stored nothing
C21_Witness ==
    /\ raised = DuplicateMonth
    /\ \E m \in Created :
        /\ m \notin DOMAIN report_months
        /\ m \in DOMAIN month_obj
        /\ month_obj[m].state = "raised"
        /\ \E n \in DOMAIN report_months :
            /\ report_months[n].year = month_obj[m].year
            /\ report_months[n].month = month_obj[m].month
            /\ report_months[n].year # FirstMonths[n].year

\* ---------------------------------------------------------------- sequential check, close()
\* C22: no add_version call ends with the "Version must be sequential"
\* error, however the calls and deletions of the workers interleave.
C22_SequentialCheckNeverTrips == raised # NotSequential

\* C23: close() of an instance of an open stored report month returns and
\* leaves the row closed, whatever was saved through the instance before;
\* and when close() raises, is_closed and closed_at of the instance are
\* those of the stored row.
C23_CloseOfOpenMonthSucceeds ==
    [][\A m \in Months :
        MonthCallStep(m, "closed") =>
            /\ ~report_months[m].is_closed
               => (month_obj'[m].state = "closed" /\ report_months'[m].is_closed)
            /\ month_obj'[m].state = "raised"
               => (/\ month_obj'[m].is_closed = report_months'[m].is_closed
                   /\ month_obj'[m].closed_at = report_months'[m].closed_at)]_vars

====
